---- MODULE Spec2Model ----
(***************************************************************************)
(* Model of HighLevelAnalyzer.py: the Saleae high level analyzer           *)
(* HLA_WINCS02_SPI, a byte-stream decoder driven by SPI frames of type     *)
(* 'enable', 'result' and 'disable'.                                       *)
(*                                                                         *)
(* Python values are modelled as tagged records [t, v] so that Python's    *)
(* typed equality (an int never equals a bytes object) is kept.  An        *)
(* attribute that was never assigned is the value Unset; reading it raises *)
(* AttributeError.                                                         *)
(***************************************************************************)
EXTENDS Integers, Sequences, FiniteSets, TLC

VARIABLES
    hla,      \* the analyzer object: its instance attributes
    frame,    \* the frame passed to the last call of decode
    ret,      \* what the last call of decode returned: <<>> (None) or <<element>>
    raised,   \* the exception the last call of decode raised, "" when none
    now,      \* capture clock: the start time of the next frame
    started,  \* an 'enable' frame has been fed
    was,      \* the state attribute as it was when the last call of decode began
    nb,       \* number of 'result' frames fed since the last 'enable'
    fed,      \* the MOSI bytes of the 3rd, 4th and 5th 'result' frame since the last 'enable'
    out,      \* elements returned since the last 'enable', each with its byte index
    cut,      \* nb at the first 'disable' since the last 'enable', -1 when none
    truncs,   \* truncated sessions (enable, 3 results, disable) completed in a row
    prevFull, \* the session before the current one was enable + 6 results
    ref,      \* reference analyzer: constructed anew at every 'enable', fed the same frames
    refret,   \* what the reference analyzer's last decode returned
    refraised,\* the exception the reference analyzer's last decode raised
    call,     \* the last call of a helper method: [fn, arg, res]
    t0,       \* start time of the frame decoded in state GET_ADDR_0 since the last 'enable', -1 when none
    twin,     \* twin analyzer: fed the same frames, except for another byte in state GET_CMD
    twinframe,\* the frame passed to the twin analyzer's last call of decode
    twinret,  \* what the twin analyzer's last decode returned
    twinraised \* the exception the twin analyzer's last decode raised

vars == <<hla, frame, ret, raised, now, started, was, nb, fed, out, cut, truncs,
          prevFull, ref, refret, refraised, call, t0, twin, twinframe, twinret,
          twinraised>>

----------------------------------------------------------------------------
(* Bounds of the model *)

\* number of frames fed to one analyzer in the runs of Spec
MaxEvents == 14

\* byte values on the MOSI line in the runs of Spec: they differ in every
\* field the decoder extracts (opcode bits, address bits of each byte)
Bytes == {18, 229}

\* byte values for the address bytes in the runs of SpecAddr: every single
\* bit, the masks and their complements
AddrBytes == {0, 1, 2, 3, 4, 8, 16, 32, 48, 64, 112, 115, 128, 140, 254, 255}

\* all byte values
AllBytes == 0 .. 255

\* opcode bytes in the runs of SpecOp: the four instructions, the same with
\* the top bits set, and unrecognized ones
OpBytes == {0, 1, 2, 3, 5, 18, 65, 194, 229, 255}

\* data bytes in the runs of SpecOp: one for each mode in bits 7:6, and others
DataBytes == {0, 64, 128, 192, 18, 255}

----------------------------------------------------------------------------
(* Python values *)

Unset == [t |-> "unset", v |-> 0]
PyNone == [t |-> "None", v |-> 0]
PyInt(n) == [t |-> "int", v |-> n]
PyBytes(s) == [t |-> "bytes", v |-> s]
PyStr(s) == [t |-> "str", v |-> s]

\* Python ==: values of different types are never equal
PyEq(a, b) == a.t = b.t /\ a.v = b.v

RECURSIVE BitAnd(_, _)
BitAnd(a, b) ==
    IF a = 0 \/ b = 0 THEN 0
    ELSE (IF a % 2 = 1 /\ b % 2 = 1 THEN 1 ELSE 0) + 2 * BitAnd(a \div 2, b \div 2)

RECURSIVE BitOr(_, _)
BitOr(a, b) ==
    IF a = 0 THEN b
    ELSE IF b = 0 THEN a
    ELSE (IF a % 2 = 1 \/ b % 2 = 1 THEN 1 ELSE 0) + 2 * BitOr(a \div 2, b \div 2)

Shl(a, k) == a * 2^k
Shr(a, k) == a \div 2^k

HexDigit(d) == <<"0","1","2","3","4","5","6","7","8","9","a","b","c","d","e","f">>[d + 1]

RECURSIVE HexDigits(_)
HexDigits(n) ==
    IF n < 16 THEN <<HexDigit(n)>>
    ELSE HexDigits(n \div 16) \o <<HexDigit(n % 16)>>

\* Python hex(n) for n >= 0: the characters of '0x...' in lower case
hex(n) == PyStr(<<"0", "x">> \o HexDigits(n))

----------------------------------------------------------------------------
(* Module constants *)

WRITE_INS == PyBytes(<<2>>)
READ_INS == PyBytes(<<3>>)
RMDR_INS == PyBytes(<<5>>)
WRMR_INS == PyBytes(<<1>>)

BYTE_MODE == 0
PAGE_MODE == 2
SEQUENTIAL_MODE == 1
RESERVED == 3

START == 0
GET_CMD == 1
GET_INS == 2
GET_ADDR_0 == 3
GET_ADDR_1 == 4
GET_ADDR_2 == 5
GET_ADDR_3 == 6
GET_DATA == 7
GET_REGVAL == 8
UNKNOWN == 9

----------------------------------------------------------------------------
(* Frames *)

NoData == [key |-> "", val |-> PyNone]

AnalyzerFrame(type, start_time, end_time, data) ==
    [type |-> type, start_time |-> start_time, end_time |-> end_time, data |-> data]

\* the SPI analyzer's frames; a 'result' frame carries one byte on MOSI
SpiFrame(type, t) == AnalyzerFrame(type, t, t + 1, NoData)
ResultFrame(b, t) ==
    AnalyzerFrame("result", t, t + 1, [key |-> "mosi", val |-> PyBytes(<<b>>)])

NoFrame == AnalyzerFrame("", 0, 0, NoData)

mosi0(f) == f.data.val.v[1]

----------------------------------------------------------------------------
(* The analyzer *)

\* __init__ assigns a local variable named state and no attribute
NewHLA ==
    [state |-> Unset, instruction |-> Unset, address |-> Unset,
     data |-> Unset, address_frame_start |-> Unset]

Return(self, r) == [self |-> self, ret |-> r, raised |-> ""]
Raise(self, e) == [self |-> self, ret |-> <<>>, raised |-> e]

instruction_str(instruction) ==
    IF PyEq(instruction, WRITE_INS) THEN PyStr("Write")
    ELSE IF PyEq(instruction, READ_INS) THEN PyStr("Read")
    ELSE IF PyEq(instruction, WRMR_INS) THEN PyStr("Write Mode Register")
    ELSE IF PyEq(instruction, RMDR_INS) THEN PyStr("Read Mode Register")
    ELSE PyStr("Unknown")

decode_mode(mode_register) ==
    PyInt(Shr(BitAnd(mode_register.v, 192), 6))

mode_str(mode) ==
    IF PyEq(mode, PyInt(BYTE_MODE)) THEN PyStr("Byte")
    ELSE IF PyEq(mode, PyInt(PAGE_MODE)) THEN PyStr("Page")
    ELSE IF PyEq(mode, PyInt(SEQUENTIAL_MODE)) THEN PyStr("Sequential")
    ELSE PyNone

\* mutant: 'enable' resets the state only after a completed session
decode_enable_onlydone(self, f) ==
    IF self.state.t = "unset" \/ PyEq(self.state, PyInt(UNKNOWN))
    THEN Return([self EXCEPT !.state = PyInt(START)], <<>>)
    ELSE Return(self, <<>>)

\* mutant: 'enable' sets the state only the first time
decode_enable_once(self, f) ==
    IF self.state.t = "unset"
    THEN Return([self EXCEPT !.state = PyInt(START)], <<>>)
    ELSE Return(self, <<>>)

\* mutant: 'enable' moves straight to GET_CMD
decode_enable_tocmd(self, f) ==
    Return([self EXCEPT !.state = PyInt(GET_CMD)], <<>>)

decode_enable(self, f) ==
    Return([self EXCEPT !.state = PyInt(START)], <<>>)

decode_START(self, f) ==
    Return([self EXCEPT !.instruction = f.data.val,
                        !.address = PyNone,
                        !.data = PyBytes(<<>>),
                        !.state = PyInt(GET_CMD)],
           <<AnalyzerFrame("Header", f.start_time, f.end_time,
                           [key |-> "header", val |-> PyStr("Head")])>>)

\* mutant: the opcode is masked to 7 bits
decode_GET_CMD_mask7f(self, f) ==
    LET instruction == BitAnd(mosi0(f), 127)
    IN  Return([self EXCEPT !.instruction = PyInt(instruction),
                            !.address = PyNone,
                            !.data = PyInt(mosi0(f)),
                            !.state = PyInt(GET_ADDR_0)],
               <<AnalyzerFrame("Instruction", f.start_time, f.end_time,
                               [key |-> "instruction", val |-> PyInt(instruction)])>>)

\* mutant: the mode register instructions carry no address
decode_GET_CMD_moderegs(self, f) ==
    LET instruction == BitAnd(mosi0(f), 63)
    IN  Return([self EXCEPT !.instruction = PyInt(instruction),
                            !.address = PyNone,
                            !.data = PyInt(mosi0(f)),
                            !.state = IF instruction \in {1, 5} THEN PyInt(GET_REGVAL)
                                      ELSE PyInt(GET_ADDR_0)],
               <<AnalyzerFrame("Instruction", f.start_time, f.end_time,
                               [key |-> "instruction", val |-> PyInt(instruction)])>>)

decode_GET_CMD(self, f) ==
    LET instruction == BitAnd(mosi0(f), 63)
    IN  Return([self EXCEPT !.instruction = PyInt(instruction),
                            !.address = PyNone,
                            !.data = PyInt(mosi0(f)),
                            !.state = PyInt(GET_ADDR_0)],
               <<AnalyzerFrame("Instruction", f.start_time, f.end_time,
                               [key |-> "instruction", val |-> PyInt(instruction)])>>)

\* mutant: the start of the address is not recorded
decode_GET_ADDR_0_nostart(self, f) ==
    LET a0 == Shl(BitAnd(mosi0(f), 112), 24)
        a1 == BitOr(a0, Shl(BitAnd(mosi0(f), 3), 15))
    IN  Return([self EXCEPT !.address = PyInt(a1),
                            !.state = PyInt(GET_ADDR_1)],
               <<>>)

\* mutant: the low two bits of the first address byte are shifted by 17
decode_GET_ADDR_0_shift17(self, f) ==
    LET a0 == Shl(BitAnd(mosi0(f), 112), 24)
        a1 == BitOr(a0, Shl(BitAnd(mosi0(f), 3), 17))
    IN  Return([self EXCEPT !.address = PyInt(a1),
                            !.address_frame_start = PyInt(f.start_time),
                            !.state = PyInt(GET_ADDR_1)],
               <<>>)

decode_GET_ADDR_0(self, f) ==
    LET a0 == Shl(BitAnd(mosi0(f), 112), 24)
        a1 == BitOr(a0, Shl(BitAnd(mosi0(f), 3), 15))
    IN  Return([self EXCEPT !.address = PyInt(a1),
                            !.address_frame_start = PyInt(f.start_time),
                            !.state = PyInt(GET_ADDR_1)],
               <<>>)

\* mutant: the second address byte is shifted by 8 instead of 7
decode_GET_ADDR_1_shift8(self, f) ==
    IF self.address.t # "int" THEN Raise(self, "TypeError")
    ELSE Return([self EXCEPT
                    !.address = PyInt(BitOr(self.address.v, Shl(BitAnd(mosi0(f), 255), 8))),
                    !.state = PyInt(GET_ADDR_2)],
                <<>>)

\* mutant: the address is taken to be complete after its second byte
decode_GET_ADDR_1_emits(self, f) ==
    IF self.address.t # "int" THEN Raise(self, "TypeError")
    ELSE LET s == [self EXCEPT
                      !.address = PyInt(BitOr(self.address.v, Shl(BitAnd(mosi0(f), 255), 7))),
                      !.state = PyInt(GET_ADDR_2)]
         IN  Return(s, <<AnalyzerFrame("Address", s.address_frame_start.v, f.end_time,
                                       [key |-> "address", val |-> hex(s.address.v)])>>)

decode_GET_ADDR_1(self, f) ==
    IF self.address.t # "int" THEN Raise(self, "TypeError")
    ELSE Return([self EXCEPT
                    !.address = PyInt(BitOr(self.address.v, Shl(BitAnd(mosi0(f), 255), 7))),
                    !.state = PyInt(GET_ADDR_2)],
                <<>>)

\* mutant: the Address element starts at the last address byte
decode_GET_ADDR_2_ownstart(self, f) ==
    IF self.address.t # "int" THEN Raise(self, "TypeError")
    ELSE LET s == [self EXCEPT
                      !.address = PyInt(BitOr(self.address.v, Shr(BitAnd(mosi0(f), 254), 1))),
                      !.state = PyInt(GET_REGVAL)]
         IN  Return(s, <<AnalyzerFrame("Address", f.start_time, f.end_time,
                                       [key |-> "address", val |-> hex(s.address.v)])>>)

\* mutant: a fourth address byte is awaited
decode_GET_ADDR_2_toaddr3(self, f) ==
    IF self.address.t # "int" THEN Raise(self, "TypeError")
    ELSE LET s == [self EXCEPT
                      !.address = PyInt(BitOr(self.address.v, Shr(BitAnd(mosi0(f), 254), 1))),
                      !.state = PyInt(GET_ADDR_3)]
         IN  IF s.address_frame_start.t = "unset" THEN Raise(s, "AttributeError")
             ELSE Return(s, <<AnalyzerFrame("Address", s.address_frame_start.v, f.end_time,
                                            [key |-> "address", val |-> hex(s.address.v)])>>)

decode_GET_ADDR_2(self, f) ==
    IF self.address.t # "int" THEN Raise(self, "TypeError")
    ELSE LET s == [self EXCEPT
                      !.address = PyInt(BitOr(self.address.v, Shr(BitAnd(mosi0(f), 254), 1))),
                      !.state = PyInt(GET_REGVAL)]
         IN  IF s.address_frame_start.t = "unset" THEN Raise(s, "AttributeError")
             ELSE Return(s, <<AnalyzerFrame("Address", s.address_frame_start.v, f.end_time,
                                            [key |-> "address", val |-> hex(s.address.v)])>>)

\* mutant: after a mode register instruction the byte is decoded as a mode
decode_GET_REGVAL_mode(self, f) ==
    LET s == [self EXCEPT !.data = PyInt(mosi0(f)), !.state = PyInt(UNKNOWN)]
    IN  IF self.instruction.t = "int" /\ self.instruction.v \in {1, 5}
        THEN Return(s, <<AnalyzerFrame("Mode", f.start_time, f.end_time,
                                       [key |-> "mode", val |-> mode_str(decode_mode(s.data))])>>)
        ELSE Return(s, <<AnalyzerFrame("Data", f.start_time, f.end_time,
                                       [key |-> "data", val |-> hex(s.data.v)])>>)

decode_GET_REGVAL(self, f) ==
    LET s == [self EXCEPT !.data = PyInt(mosi0(f)), !.state = PyInt(UNKNOWN)]
    IN  Return(s, <<AnalyzerFrame("Data", f.start_time, f.end_time,
                                  [key |-> "data", val |-> hex(s.data.v)])>>)

\* mutant: after the data byte the next byte is taken as a new header
decode_result_wrap(self, f) ==
    IF self.state.t = "unset" THEN Raise(self, "AttributeError")
    ELSE IF PyEq(self.state, PyInt(START)) THEN decode_START(self, f)
    ELSE IF PyEq(self.state, PyInt(GET_CMD)) THEN decode_GET_CMD(self, f)
    ELSE IF PyEq(self.state, PyInt(GET_ADDR_0)) THEN decode_GET_ADDR_0(self, f)
    ELSE IF PyEq(self.state, PyInt(GET_ADDR_1)) THEN decode_GET_ADDR_1(self, f)
    ELSE IF PyEq(self.state, PyInt(GET_ADDR_2)) THEN decode_GET_ADDR_2(self, f)
    ELSE IF PyEq(self.state, PyInt(GET_REGVAL)) THEN decode_GET_REGVAL(self, f)
    ELSE decode_START(self, f)

decode_result(self, f) ==
    IF self.state.t = "unset" THEN Raise(self, "AttributeError")
    ELSE IF PyEq(self.state, PyInt(START)) THEN decode_START(self, f)
    ELSE IF PyEq(self.state, PyInt(GET_CMD)) THEN decode_GET_CMD(self, f)
    ELSE IF PyEq(self.state, PyInt(GET_ADDR_0)) THEN decode_GET_ADDR_0(self, f)
    ELSE IF PyEq(self.state, PyInt(GET_ADDR_1)) THEN decode_GET_ADDR_1(self, f)
    ELSE IF PyEq(self.state, PyInt(GET_ADDR_2)) THEN decode_GET_ADDR_2(self, f)
    ELSE IF PyEq(self.state, PyInt(GET_REGVAL)) THEN decode_GET_REGVAL(self, f)
    ELSE Return(self, <<>>)

\* mutant: 'disable' resets the state as 'enable' does
decode_disable_reset(self, f) ==
    Return([self EXCEPT !.state = PyInt(START)], <<>>)

decode_disable(self, f) ==
    Return(self, <<>>)

decode(self, f) ==
    IF f.type = "enable" THEN decode_enable(self, f)
    ELSE IF f.type = "result" THEN decode_result(self, f)
    ELSE IF f.type = "disable" THEN decode_disable(self, f)
    ELSE Return(self, <<>>)

\* the address decode assembles from three address bytes: the three address
\* states run one after the other
assemble(b0, b1, b2) ==
    LET s0 == [NewHLA EXCEPT !.state = PyInt(GET_ADDR_0), !.address = PyNone]
        s1 == decode_result(s0, ResultFrame(b0, 0)).self
        s2 == decode_result(s1, ResultFrame(b1, 2)).self
        s3 == decode_result(s2, ResultFrame(b2, 4)).self
    IN  s3.address.v

----------------------------------------------------------------------------
(* The state machine: one action per kind of frame fed to decode *)

NoCall == [fn |-> "", arg |-> PyNone, res |-> PyNone]

Init ==
    /\ hla = NewHLA
    /\ frame = NoFrame
    /\ ret = <<>>
    /\ raised = ""
    /\ now = 0
    /\ started = FALSE
    /\ was = Unset
    /\ nb = 0
    /\ fed = <<>>
    /\ out = <<>>
    /\ cut = -1
    /\ truncs = 0
    /\ prevFull = FALSE
    /\ ref = NewHLA
    /\ refret = <<>>
    /\ refraised = ""
    /\ call = NoCall
    /\ t0 = -1
    /\ twin = NewHLA
    /\ twinframe = NoFrame
    /\ twinret = <<>>
    /\ twinraised = ""

\* the elements of r, each tagged with the index at of the byte that produced it
Tagged(r, at) ==
    [i \in 1 .. Len(r) |-> [at |-> at, type |-> r[i].type, val |-> r[i].data.val]]

\* decode(f) on the analyzer, and on the reference analyzer r0; the twin
\* analyzer decodes g
Feed(f, r0, g) ==
    LET d == decode(hla, f)
        r == decode(r0, f)
        w == decode(twin, g)
    IN  /\ frame' = f
        /\ twin' = w.self
        /\ twinframe' = g
        /\ twinret' = w.ret
        /\ twinraised' = w.raised
        /\ was' = hla.state
        /\ hla' = d.self
        /\ ret' = d.ret
        /\ raised' = d.raised
        /\ ref' = r.self
        /\ refret' = r.ret
        /\ refraised' = r.raised
        /\ now' = now + 2

\* decode of an 'enable' frame
Enable(limit) ==
    /\ now < 2 * limit
    /\ Feed(SpiFrame("enable", now), NewHLA, SpiFrame("enable", now))
    /\ t0' = -1
    /\ started' = TRUE
    /\ nb' = 0
    /\ fed' = <<>>
    /\ out' = Tagged(ret', 0)
    /\ cut' = -1
    /\ truncs' = IF started /\ nb = 3 /\ cut = 3 THEN truncs + 1 ELSE 0
    /\ prevFull' = (started /\ nb = 6 /\ cut = -1)
    /\ UNCHANGED call

\* decode of a 'result' frame whose MOSI byte is in S; in state GET_CMD the
\* twin analyzer is fed a byte of T in its place
ResultTwin(S, T, limit) ==
    /\ now < 2 * limit
    /\ \E b \in S :
        /\ \E c \in (IF PyEq(hla.state, PyInt(GET_CMD)) THEN T ELSE {b}) :
               Feed(ResultFrame(b, now), ref, ResultFrame(c, now))
        /\ fed' = IF nb \in 2 .. 4 THEN Append(fed, b) ELSE fed
    /\ t0' = IF PyEq(hla.state, PyInt(GET_ADDR_0)) THEN now ELSE t0
    /\ nb' = nb + 1
    /\ out' = out \o Tagged(ret', nb + 1)
    /\ UNCHANGED <<started, cut, truncs, prevFull, call>>

\* decode of a 'result' frame whose MOSI byte is in S
Result(S, limit) == ResultTwin(S, S, limit)

\* decode of a 'disable' frame
Disable(limit) ==
    /\ now < 2 * limit
    /\ Feed(SpiFrame("disable", now), ref, SpiFrame("disable", now))
    /\ UNCHANGED t0
    /\ cut' = IF cut = -1 THEN nb ELSE cut
    /\ out' = out \o Tagged(ret', nb)
    /\ UNCHANGED <<started, nb, fed, truncs, prevFull, call>>

\* a consumer classifies the stored instruction
InstructionStr ==
    /\ hla.instruction.t # "unset"
    /\ call' = [fn |-> "instruction_str", arg |-> hla.instruction,
                res |-> instruction_str(hla.instruction)]
    /\ UNCHANGED <<hla, frame, ret, raised, now, started, was, nb, fed, out, cut,
                   truncs, prevFull, ref, refret, refraised, t0, twin, twinframe,
                   twinret, twinraised>>

\* a consumer decodes a mode register byte v
ModeStr(v) ==
    /\ call' = [fn |-> "mode_str", arg |-> PyInt(v),
                res |-> mode_str(decode_mode(PyInt(v)))]
    /\ UNCHANGED <<hla, frame, ret, raised, now, started, was, nb, fed, out, cut,
                   truncs, prevFull, ref, refret, refraised, t0, twin, twinframe,
                   twinret, twinraised>>

Next ==
    \/ Enable(MaxEvents)
    \/ Result(Bytes, MaxEvents)
    \/ Disable(MaxEvents)

Spec == Init /\ [][Next]_vars

\* one session on a new analyzer, up to the Address element, with the
\* address bytes drawn from AddrBytes
NextAddr ==
    \/ Enable(1)
    \/ (started /\ nb < 2 /\ Result(Bytes, 6))
    \/ (started /\ nb >= 2 /\ Result(AddrBytes, 6))

SpecAddr == Init /\ [][NextAddr]_vars

\* one session of a Write instruction on a new analyzer, up to the Address
\* element, with the address bytes drawn from AddrBytes
NextBits ==
    \/ Enable(1)
    \/ (started /\ nb < 2 /\ Result({2}, 6))
    \/ (started /\ nb >= 2 /\ Result(AddrBytes, 6))

SpecBits == Init /\ [][NextBits]_vars

\* the header and the opcode byte of a session, with every opcode byte, and
\* the classification of the stored instruction
NextIns ==
    \/ Enable(1)
    \/ (started /\ nb = 0 /\ Result(Bytes, 3))
    \/ (started /\ nb = 1 /\ ResultTwin(AllBytes, Bytes, 3))
    \/ InstructionStr

SpecIns == Init /\ [][NextIns]_vars

\* one full session on a new analyzer, with the opcode byte drawn from
\* OpBytes and the data byte from DataBytes
NextOp ==
    \/ Enable(1)
    \/ (started /\ nb # 1 /\ nb < 5 /\ Result(Bytes, 7))
    \/ (started /\ nb = 1 /\ Result(OpBytes, 7))
    \/ (started /\ nb = 5 /\ Result(DataBytes, 7))

SpecOp == Init /\ [][NextOp]_vars

\* the mode register decode on every byte
NextMode == \E v \in AllBytes : ModeStr(v)

SpecMode == Init /\ [][NextMode]_vars

----------------------------------------------------------------------------
(* Properties *)

IsElem(r, type) == Len(r) = 1 /\ r[1].type = type

\* the kind and the byte index of each element of o
Kinds(o) == [i \in 1 .. Len(o) |-> [at |-> o[i].at, type |-> o[i].type]]

\* what a session of 6 bytes emits: the kind of each element and the byte it is emitted on
SessionKinds ==
    << [at |-> 1, type |-> "Header"], [at |-> 2, type |-> "Instruction"],
       [at |-> 5, type |-> "Address"], [at |-> 6, type |-> "Data"] >>

KindsUpTo(n) == SelectSeq(SessionKinds, LAMBDA e : e.at <= n)

\* C1: in a session of one 'enable' followed by up to 6 'result' frames and no
\* 'disable', the elements emitted so far are exactly Header on byte 1,
\* Instruction on byte 2, Address on byte 5 and Data on byte 6, in this order;
\* the 'enable' and the bytes 3 and 4 emit nothing and no call raises.
C1_SessionElements ==
    (started /\ cut = -1 /\ nb <= 6) =>
        /\ Kinds(out) = KindsUpTo(nb)
        /\ raised = ""

C1_Witness ==
    /\ started /\ cut = -1 /\ nb = 6
    /\ Kinds(out) = SessionKinds
    /\ IsElem(ret, "Data")

\* the classification the claim gives for a masked opcode value
Classification(v) ==
    IF v = 2 THEN "Write"
    ELSE IF v = 3 THEN "Read"
    ELSE IF v = 1 THEN "Write Mode Register"
    ELSE IF v = 5 THEN "Read Mode Register"
    ELSE "Unknown"

\* C2: instruction_str applied to the instruction stored in the GET_CMD phase
\* (the byte masked to its low 6 bits, an int) gives Write for 2, Read for 3,
\* Write Mode Register for 1, Read Mode Register for 5 and Unknown otherwise.
C2_Classification ==
    (call.fn = "instruction_str" /\ call.arg.t = "int") =>
        PyEq(call.res, PyStr(Classification(call.arg.v)))

\* the address the claim gives for three address bytes
AddressOf(b0, b1, b2) ==
    BitOr(BitOr(BitOr(Shl(BitAnd(b0, 112), 24), Shl(BitAnd(b0, 3), 15)), Shl(b1, 7)),
          Shr(BitAnd(b2, 254), 1))

\* the same address by arithmetic on the bit fields
AddressSum(b0, b1, b2) ==
    ((b0 \div 16) % 8) * 268435456 + (b0 % 4) * 32768 + b1 * 128 + (b2 \div 2)

\* C3: the Address element of a session carries the address put together from
\* the three address bytes as ((b0 & 0x70) << 24) | ((b0 & 0x03) << 15) |
\* (b1 << 7) | ((b2 & 0xFE) >> 1), written by hex(); (0x10, 0x20, 0x30) gives
\* 0x10001018.
C3_AddressValue ==
    IsElem(ret, "Address") =>
        /\ Len(fed) = 3
        /\ PyEq(hla.address, PyInt(AddressOf(fed[1], fed[2], fed[3])))
        /\ hla.address.v = AddressSum(fed[1], fed[2], fed[3])
        /\ PyEq(ret[1].data.val, hex(AddressOf(fed[1], fed[2], fed[3])))
        /\ (fed = <<16, 32, 48>> =>
               /\ hla.address.v = 268439576
               /\ ret[1].data.val.v = <<"0", "x", "1", "0", "0", "0", "1", "0", "1", "8">>)

C3_Witness ==
    /\ IsElem(ret, "Address")
    /\ fed = <<16, 32, 48>>
    /\ hla.address.v = 268439576

\* the mode the claim gives for bits 7:6 of a mode register byte
ModeName(m) ==
    IF m = 0 THEN "Byte"
    ELSE IF m = 1 THEN "Sequential"
    ELSE IF m = 2 THEN "Page"
    ELSE "Reserved"

\* C4: the mode decoded from a mode register byte v is the name of bits 7:6 of
\* v: Byte for 0, Sequential for 1, Page for 2, Reserved for 3, never a
\* missing value.
C4_ModeNamed ==
    call.fn = "mode_str" =>
        PyEq(call.res, PyStr(ModeName(call.arg.v \div 64)))

\* the analyzer answers as the reference analyzer, which was new at the last 'enable'
SameAsFresh ==
    /\ ret = refret
    /\ raised = refraised

\* C5: a session of 'enable', 3 'result' frames and 'disable' has emitted
\* Header and Instruction only, and after any number of such sessions in a row
\* the next 'enable' resets the state and every call answers as on a new
\* analyzer.
C5_Truncated ==
    /\ (started /\ nb = 3 /\ cut = 3) =>
           Kinds(out) = << [at |-> 1, type |-> "Header"], [at |-> 2, type |-> "Instruction"] >>
    /\ truncs >= 1 =>
           /\ SameAsFresh
           /\ hla.state = ref.state
           /\ (frame.type = "enable" => PyEq(hla.state, PyInt(START)))

C5_Witness ==
    /\ truncs >= 2 /\ nb = 2 /\ cut = -1
    /\ IsElem(ret, "Instruction")
    /\ Kinds(out) = KindsUpTo(2)

\* C6: in a session that follows a full session of 6 bytes, every call returns
\* the element (kind, payload and interval) that a new analyzer fed the same
\* session alone returns.
C6_NoLeak ==
    prevFull => (ret = refret /\ raised = refraised /\ raised = "")

C6_Witness ==
    /\ prevFull /\ nb = 6 /\ cut = -1
    /\ IsElem(ret, "Data")
    /\ Kinds(out) = SessionKinds

\* C7: an 'enable' frame sets the state to START and returns nothing, whatever
\* the state was, and the 'result' frame that follows it returns Header.
C7_EnableResets ==
    /\ frame.type = "enable" =>
           (PyEq(hla.state, PyInt(START)) /\ ret = <<>> /\ raised = "")
    /\ (started /\ nb = 1 /\ cut = -1 /\ frame.type = "result") =>
           IsElem(ret, "Header")

C7_Witness ==
    /\ frame.type = "enable"
    /\ PyEq(was, PyInt(GET_ADDR_2))
    /\ PyEq(hla.state, PyInt(START))

\* C8: a 'result' frame fed to a new analyzer before any 'enable' returns
\* Header and moves the state to GET_CMD, and no call of decode raises.
C8_FreshByte ==
    /\ (~started /\ nb = 1 /\ frame.type = "result") =>
           (IsElem(ret, "Header") /\ PyEq(hla.state, PyInt(GET_CMD)))
    /\ raised = ""

\* C9: a 'disable' frame in a state other than UNKNOWN returns nothing and
\* discards the partial state of the session: the state does not stay in the
\* middle of the session, and the first 'result' frame after it is not decoded
\* as the next byte of the ended session.
C9_DisableDiscards ==
    /\ (frame.type = "disable" /\ ~PyEq(was, PyInt(UNKNOWN))) => ret = <<>>
    /\ (frame.type = "disable" /\ was.t = "int" /\ was.v \notin {START, UNKNOWN}) =>
           hla.state # was
    /\ (started /\ cut \in 1 .. 5 /\ nb = cut + 1 /\ frame.type = "result") =>
           (ret = <<>> \/ IsElem(ret, "Header"))

\* the states in which a 'result' frame returns an element; a new analyzer is
\* in the initial phase
Emitting(st) ==
    \/ st.t = "unset"
    \/ st.t = "int" /\ st.v \in {START, GET_CMD, GET_ADDR_2, GET_REGVAL}

\* C10: every call of decode returns nothing or one element: nothing for
\* 'enable' and 'disable', and for 'result' one element exactly in the initial
\* phase, GET_CMD, GET_ADDR_2 and GET_REGVAL.
C10_OneElement ==
    /\ raised = ""
    /\ Len(ret) <= 1
    /\ frame.type \in {"enable", "disable"} => ret = <<>>
    /\ frame.type = "result" => (Len(ret) = 1 <=> Emitting(was))

\* the order of the phases of a session
PhaseOrder == <<START, GET_CMD, GET_ADDR_0, GET_ADDR_1, GET_ADDR_2, GET_REGVAL, UNKNOWN>>

PhaseIndex(v) == CHOOSE i \in 1 .. Len(PhaseOrder) : PhaseOrder[i] = v

\* the phase of an analyzer: a new analyzer is in the initial phase
PhaseOf(st) == IF st.t = "unset" THEN START ELSE st.v

\* C11: a 'result' frame decoded in a phase other than UNKNOWN moves the state
\* to the next one of START, GET_CMD, GET_ADDR_0, GET_ADDR_1, GET_ADDR_2,
\* GET_REGVAL, UNKNOWN; in UNKNOWN it leaves the state there; and the state
\* becomes START only by an 'enable' frame.
C11_OneStep ==
    /\ (frame.type = "result" /\ PhaseOf(was) # UNKNOWN) =>
           /\ \E i \in 1 .. Len(PhaseOrder) - 1 : PhaseOrder[i] = PhaseOf(was)
           /\ PyEq(hla.state, PyInt(PhaseOrder[PhaseIndex(PhaseOf(was)) + 1]))
    /\ (frame.type = "result" /\ PyEq(was, PyInt(UNKNOWN))) =>
           PyEq(hla.state, PyInt(UNKNOWN))
    /\ (PyEq(hla.state, PyInt(START)) /\ ~PyEq(was, PyInt(START))) =>
           frame.type = "enable"

\* C12: in state UNKNOWN a 'result' and a 'disable' frame return nothing and
\* leave every attribute of the analyzer (state, instruction, address,
\* address_frame_start, data) as it was, so the state stays UNKNOWN until the
\* next 'enable'.
C12_SinkAbsorbs ==
    [][ (PyEq(hla.state, PyInt(UNKNOWN)) /\ frame'.type \in {"result", "disable"}) =>
            (hla' = hla /\ ret' = <<>> /\ raised' = "") ]_vars

C12_Witness ==
    /\ PyEq(was, PyInt(UNKNOWN))
    /\ PyEq(hla.state, PyInt(UNKNOWN))
    /\ frame.type = "result"
    /\ nb >= 8
    /\ cut # -1

\* C13: the instruction stored and returned in state GET_CMD is the byte
\* modulo 64 (its low 6 bits), a value in 0 .. 63, and two analyzers fed opcode
\* bytes with the same low 6 bits return the same Instruction element.
C13_MaskedOpcode ==
    (frame.type = "result" /\ PyEq(was, PyInt(GET_CMD))) =>
        /\ PyEq(hla.instruction, PyInt(mosi0(frame) % 64))
        /\ hla.instruction.v \in 0 .. 63
        /\ IsElem(ret, "Instruction")
        /\ PyEq(ret[1].data.val, PyInt(mosi0(frame) % 64))
        /\ (mosi0(frame) % 64 = mosi0(twinframe) % 64 => ret = twinret)
        /\ (mosi0(frame) % 64 # mosi0(twinframe) % 64 => ret # twinret)

C13_Witness ==
    /\ frame.type = "result" /\ PyEq(was, PyInt(GET_CMD))
    /\ mosi0(frame) = 210 /\ mosi0(twinframe) = 18
    /\ PyEq(hla.instruction, PyInt(18))
    /\ ret = twinret

\* C14: every element ends at the end time of the frame that produced it; the
\* Address element starts at the start time of the frame decoded in state
\* GET_ADDR_0 since the last 'enable', and Header, Instruction and Data start
\* at the start time of the frame that produced them.
C14_Intervals ==
    ret # <<>> =>
        /\ ret[1].end_time = frame.end_time
        /\ ret[1].type = "Address" =>
               (t0 >= 0 /\ ret[1].start_time = t0 /\ t0 < frame.start_time)
        /\ ret[1].type \in {"Header", "Instruction", "Data"} =>
               ret[1].start_time = frame.start_time
        /\ ret[1].type \in {"Header", "Instruction", "Address", "Data"}

C14_Witness ==
    /\ prevFull
    /\ IsElem(ret, "Address")
    /\ ret[1].start_time = t0
    /\ frame.end_time - t0 > 5

\* C15: two analyzers fed the same frames, except for the byte decoded in
\* state GET_CMD, are in the same state after every frame and return the same
\* Header, Address and Data elements; their Instruction elements have the same
\* interval and differ in the payload only.
C15_OpcodeIndependent ==
    /\ twin.state = hla.state
    /\ twinraised = raised
    /\ Len(twinret) = Len(ret)
    /\ ret # <<>> =>
           /\ twinret[1].type = ret[1].type
           /\ twinret[1].start_time = ret[1].start_time
           /\ twinret[1].end_time = ret[1].end_time
           /\ ret[1].type # "Instruction" => twinret = ret

C15_Witness ==
    /\ IsElem(ret, "Data")
    /\ PyEq(hla.instruction, PyInt(1))
    /\ PyEq(twin.instruction, PyInt(18))
    /\ twinret = ret
    /\ Kinds(out) = SessionKinds

\* the text of a byte as Python writes it in hexadecimal
ByteText(b) ==
    <<"0", "x">> \o (IF b < 16 THEN <<HexDigit(b)>>
                     ELSE <<HexDigit(b \div 16), HexDigit(b % 16)>>)

\* C16: the Data element carries the whole byte decoded in state GET_REGVAL,
\* written by hex(), whatever the instruction of the session; no element of
\* kind Mode is ever returned.
C16_RawData ==
    /\ ret # <<>> => ret[1].type # "Mode"
    /\ (frame.type = "result" /\ PyEq(was, PyInt(GET_REGVAL))) =>
           /\ IsElem(ret, "Data")
           /\ PyEq(hla.data, PyInt(mosi0(frame)))
           /\ ret[1].data.key = "data"
           /\ PyEq(ret[1].data.val, PyStr(ByteText(mosi0(frame))))

C16_Witness ==
    /\ IsElem(ret, "Data")
    /\ PyEq(hla.instruction, PyInt(5))
    /\ mosi0(frame) = 192
    /\ ret[1].data.val.v = <<"0", "x", "c", "0">>

\* the address written in state GET_ADDR_0 for the byte b
FirstPart(b) == ((b \div 16) % 8) * 268435456 + (b % 4) * 32768

\* C17: once an 'enable' has been fed, whenever the analyzer is about to OR
\* into the address (states GET_ADDR_1 and GET_ADDR_2) the address is the int
\* built from the bytes decoded since state GET_ADDR_0 of the same session, and
\* address_frame_start is the start time recorded there; no read fails, and
\* the Address element starts at that time.
C17_DefinedBeforeRead ==
    started =>
        /\ raised = ""
        /\ PyEq(hla.state, PyInt(GET_ADDR_1)) =>
               /\ t0 >= 0 /\ Len(fed) = 1
               /\ PyEq(hla.address, PyInt(FirstPart(fed[1])))
               /\ PyEq(hla.address_frame_start, PyInt(t0))
        /\ PyEq(hla.state, PyInt(GET_ADDR_2)) =>
               /\ t0 >= 0 /\ Len(fed) = 2
               /\ PyEq(hla.address, PyInt(FirstPart(fed[1]) + fed[2] * 128))
               /\ PyEq(hla.address_frame_start, PyInt(t0))
        /\ IsElem(ret, "Address") =>
               (t0 >= 0 /\ ret[1].start_time = t0)

C17_Witness ==
    /\ prevFull
    /\ PyEq(hla.state, PyInt(GET_ADDR_2))
    /\ fed = <<229, 18>>
    /\ PyEq(hla.address_frame_start, PyInt(t0))

\* the address of every triple of bytes of AddrBytes
AddressTable ==
    [b0 \in AddrBytes |-> [b1 \in AddrBytes |-> [b2 \in AddrBytes |-> assemble(b0, b1, b2)]]]

\* the bits of three address bytes that the masks keep: b0 & 0x73, b1, b2 & 0xFE
Kept(t) == << (t[1] % 4) + 16 * ((t[1] \div 16) % 8), t[2], t[3] - (t[3] % 2) >>

\* C18: the four parts of the address lie in the bit ranges 28..30, 15..16,
\* 7..14 and 0..6 and can be read back from it, every address is in
\* 0 .. 2^31 - 1 with bits 17..27 zero, and two triples of address bytes give
\* the same address exactly when they agree on b0 & 0x73, b1 and b2 & 0xFE.
C18_AddressBits ==
    IsElem(ret, "Address") =>
        LET a == hla.address.v
        IN  /\ a >= 0 /\ a <= 2147483647
            /\ (a \div 131072) % 2048 = 0
            /\ (a \div 268435456) = (fed[1] \div 16) % 8
            /\ (a \div 32768) % 4 = fed[1] % 4
            /\ (a \div 128) % 256 = fed[2]
            /\ a % 128 = fed[3] \div 2
            /\ AddressTable[fed[1]][fed[2]][fed[3]] = a
            /\ \A b0 \in AddrBytes, b1 \in AddrBytes, b2 \in AddrBytes :
                   (AddressTable[b0][b1][b2] = a) <=> (Kept(<<b0, b1, b2>>) = Kept(fed))

C18_Witness ==
    /\ IsElem(ret, "Address")
    /\ fed = <<255, 255, 255>>
    /\ hla.address.v = 1879179263
    /\ AddressTable[115][255][254] = hla.address.v

\* the kinds of the elements of o
Types(o) == [i \in 1 .. Len(o) |-> o[i].type]

\* C19: the elements returned since the last 'enable' are a prefix of Header,
\* Instruction, Address, Data: each kind at most once and in this order, an
\* Address only after a Header and an Instruction, whatever 'disable' frames
\* were fed in between.
C19_AtMostOnce ==
    started =>
        \E n \in 0 .. 4 :
            Types(out) = SubSeq(<<"Header", "Instruction", "Address", "Data">>, 1, n)

C19_Witness ==
    /\ started
    /\ cut \in 1 .. 4
    /\ nb >= 7
    /\ frame.type = "disable"
    /\ Types(out) = <<"Header", "Instruction", "Address", "Data">>

\* C20: once an 'enable' has been fed, the state is one of START, GET_CMD,
\* GET_ADDR_0, GET_ADDR_1, GET_ADDR_2, GET_REGVAL, UNKNOWN; the states GET_INS,
\* GET_ADDR_3 and GET_DATA are never entered.
C20_ReachableStates ==
    /\ started =>
           /\ hla.state.t = "int"
           /\ hla.state.v \in {START, GET_CMD, GET_ADDR_0, GET_ADDR_1, GET_ADDR_2,
                               GET_REGVAL, UNKNOWN}
    /\ hla.state.t = "int" => hla.state.v \notin {GET_INS, GET_ADDR_3, GET_DATA}

C20_Witness ==
    /\ started /\ prevFull
    /\ PyEq(was, PyInt(GET_REGVAL))
    /\ PyEq(hla.state, PyInt(UNKNOWN))

====
